---- MODULE Spec2Model ----
(***************************************************************************)
(* Model of the /get-bgg-games handler of src/main.py: the bounded retry   *)
(* loop around the upstream collection call and the shape-tolerant         *)
(* extraction of {objectid, name} records from the parsed XML tree.        *)
(*                                                                         *)
(* A handler runs atomically between two awaits, so a request has three    *)
(* steps: the arrival (validation, first client.get), the completion of a  *)
(* client.get (everything up to the next await or to the response) and the *)
(* completion of an asyncio.sleep (the next loop iteration's client.get).  *)
(***************************************************************************)
EXTENDS Integers, Sequences, FiniteSets, TLC

VARIABLES username, pc, attempt, calls, delays, hist, response

vars == <<username, pc, attempt, calls, delays, hist, response>>

(***************************************************************************)
(* Bounds                                                                  *)
(***************************************************************************)
NumRequests == 2
MaxItems == 2
MaxNames == 2

Requests == 1..NumRequests

(***************************************************************************)
(* Program constants                                                       *)
(***************************************************************************)
max_retries == 5
retry_delay == 5
DetailStatusExcerpt == 200
DetailXmlExcerpt == 500

(***************************************************************************)
(* Python values of the parsed tree, as a tagged union.  A dict is a       *)
(* function from its keys to values.                                       *)
(***************************************************************************)
None == [t |-> "none"]
Str(s) == [t |-> "str", s |-> s]
PyInt(i) == [t |-> "int", i |-> i]
Dict(d) == [t |-> "dict", d |-> d]
List(l) == [t |-> "list", l |-> l]

EmptyDict == Dict([k \in {} |-> None])
EmptyList == List(<<>>)

isinstance(v, type) == v.t = type

\* d.get(key, default) on a dict value
Get(v, key, default) == IF key \in DOMAIN v.d THEN v.d[key] ELSE default

\* key in d
Has(v, key) == key \in DOMAIN v.d

\* bool(v)
Truthy(v) ==
  CASE v.t = "none" -> FALSE
    [] v.t = "str" -> v.s # ""
    [] v.t = "int" -> v.i # 0
    [] v.t = "list" -> Len(v.l) > 0
    [] v.t = "dict" -> DOMAIN v.d # {}

\* str(v) for the scalars the name branch can meet
str(v) ==
  CASE v.t = "str" -> v
    [] v.t = "none" -> Str("None")
    [] v.t = "int" -> Str(ToString(v.i))
    [] OTHER -> Str("<repr>")

(***************************************************************************)
(* Normalizer: lines 129-173                                               *)
(***************************************************************************)

\* n.get("#text", n.get("@value", ""))
NameText(n) == Get(n, "#text", Get(n, "@value", Str("")))

\* only the string form of the sort index recognised
HasSortIndex1StrOnly(n) == Get(n, "@sortindex", None) = Str("1")

\* n.get("@sortindex") == "1" or n.get("@sortindex") == 1
HasSortIndex1(n) ==
  \/ Get(n, "@sortindex", None) = Str("1")
  \/ Get(n, "@sortindex", None) = PyInt(1)

\* the entry at which the for loop over name_data breaks, 0 if it runs out
SortIndex1Position(l) ==
  LET hits == {i \in 1..Len(l) : isinstance(l[i], "dict") /\ HasSortIndex1(l[i])}
  IN IF hits = {} THEN 0 ELSE CHOOSE i \in hits : \A j \in hits : i <= j

\* the isinstance(name_data, list) branch
NameFromList(l) ==
  LET p == SortIndex1Position(l)
      found == IF p = 0 THEN None ELSE NameText(l[p])
  IN IF found = None /\ Len(l) > 0
       THEN LET first_name == l[1]
            IN IF isinstance(first_name, "dict")
                 THEN NameText(first_name)
                 ELSE str(first_name)
       ELSE found

\* name of one game from game.get("name")
ExtractName(name_data) ==
  IF isinstance(name_data, "list") THEN NameFromList(name_data.l)
  ELSE IF isinstance(name_data, "dict") THEN NameText(name_data)
  ELSE IF Truthy(name_data) THEN str(name_data) ELSE None

\* body of the loop over items, for a game that is a dict
ExtractGame(game) ==
  [objectid |-> Get(game, "@objectid", None),
   name |-> ExtractName(Get(game, "name", None))]

\* outcome of a piece of handler code: a returned JSON body or an
\* exception no except clause of the handler catches
Returned(body) == [raised |-> FALSE, body |-> body]
Raised(error) == [raised |-> TRUE, error |-> error]

\* the message node passed on as it is
MessageTextRaw(m) == m

\* data["message"].get("#text") if isinstance(data["message"], dict) else data["message"]
MessageText(m) == IF isinstance(m, "dict") THEN Get(m, "#text", None) ELSE m

\* the single mapping left unwrapped
WrapSingleNever(items) == items

\* items = [items] when the item node is one mapping
WrapSingle(items) == IF isinstance(items, "dict") THEN List(<<items>>) ELSE items

\* count taken over the games that have a name
OkBodyCountNamed(result) ==
  [status |-> "ok",
   count |-> Cardinality({i \in 1..Len(result) : result[i].name # None}),
   items |-> result]

\* {"status": "ok", "count": len(result), "items": result}
OkBody(result) == [status |-> "ok", count |-> Len(result), items |-> result]

\* records collected in the reverse of the upstream order
ExtractAllReversed(items) ==
  CASE items.t = "list" ->
         IF \E i \in 1..Len(items.l) : ~isinstance(items.l[i], "dict")
           THEN Raised("AttributeError")
           ELSE Returned(OkBody([i \in 1..Len(items.l) |->
                                   ExtractGame(items.l[Len(items.l) + 1 - i])]))
    [] items.t = "str" ->
         IF items.s = "" THEN Returned(OkBody(<<>>)) ELSE Raised("AttributeError")
    [] OTHER -> Raised("TypeError")

\* the loop "for game in items" and the final return
ExtractAll(items) ==
  CASE items.t = "list" ->
         IF \E i \in 1..Len(items.l) : ~isinstance(items.l[i], "dict")
           THEN Raised("AttributeError")
           ELSE Returned(OkBody([i \in 1..Len(items.l) |-> ExtractGame(items.l[i])]))
    [] items.t = "str" ->
         IF items.s = "" THEN Returned(OkBody(<<>>)) ELSE Raised("AttributeError")
    [] OTHER -> Raised("TypeError")

\* lines 129-173 on the parsed tree
Normalize(data) ==
  IF Has(data, "message")
    THEN Returned([status |-> "processing", message |-> MessageText(data.d["message"])])
    ELSE LET node == Get(data, "items", EmptyDict)
         IN IF ~isinstance(node, "dict")
              THEN Raised("AttributeError")
              ELSE ExtractAll(WrapSingle(Get(node, "item", EmptyList)))

(***************************************************************************)
(* Responses delivered to the caller                                       *)
(***************************************************************************)
NoResponse == [code |-> 0]

\* raise HTTPException(status_code, detail); info is what the detail embeds
HTTPException(status_code, detail, info) ==
  [code |-> status_code, detail |-> detail, info |-> info]

\* a returned dict is sent as JSON with status 200
JSONResponse(body) == [code |-> 200, body |-> body]

\* an exception that leaves the handler uncaught is answered with a 500
InternalServerError(error) == [code |-> 500, unhandled |-> error]

\* the required query parameter is absent: the framework answers before
\* the handler body runs
ValidationError == [code |-> 422, detail |-> "missing", info |-> "username"]

(***************************************************************************)
(* Upstream replies: what one client.get can end in                        *)
(***************************************************************************)
\* a response with a status code and a body; length is len(resp.text),
\* tree is what xmltodict.parse makes of the text, Malformed if it raises
Malformed == [t |-> "malformed"]
\* a body whose text cannot be had: the response names a charset that is
\* no text encoding, and resp.text raises error
Undecodable(error) == [t |-> "undecodable", error |-> error]
Decodes(resp) == resp.tree.t # "undecodable"
Response(status_code, length, tree) ==
  [kind |-> "response", status_code |-> status_code, length |-> length, tree |-> tree]
TimeoutException == [kind |-> "timeout"]
HTTPError == [kind |-> "error"]

Min(a, b) == IF a < b THEN a ELSE b
Last(h) == h[Len(h)]

(***************************************************************************)
(* Fetcher: lines 61-116                                                   *)
(***************************************************************************)
\* range(max_retries)
InRange(a) == a < max_retries

\* off by one: the last attempt still counts as having attempts left
AttemptsRemainOffByOne(a) == a < max_retries

\* attempt < max_retries - 1
AttemptsRemain(a) == a < max_retries - 1

\* resp.status_code == 202
IsProcessing(status_code) == status_code = 202

\* a client error status counted among the rate-limiting ones
IsBusyWide(status_code) == status_code \in {404, 500, 503}

\* resp.status_code in (500, 503)
IsBusy(status_code) == status_code \in {500, 503}

\* what the loop body does with the outcome of client.get
Sleep == [do |-> "sleep"]
Break == [do |-> "break"]
Raise(exc) == [do |-> "raise", exc |-> exc]

\* the timeout clause placed after the clause of its base class
OnTimeoutShadowed(a) ==
  IF AttemptsRemain(a) THEN Sleep
  ELSE Raise(HTTPException(502, "contact", max_retries))

\* except httpx.TimeoutException, lines 101-105
OnTimeout(a) ==
  IF AttemptsRemain(a) THEN Sleep
  ELSE Raise(HTTPException(504, "timeout", max_retries))

\* the transport error clause without its check of the attempts left
OnHTTPErrorAlwaysSleep(a) == Sleep

\* except httpx.HTTPError, lines 106-110
OnHTTPError(a) ==
  IF AttemptsRemain(a) THEN Sleep
  ELSE Raise(HTTPException(502, "contact", max_retries))

\* the body of the last 202 handed on instead of a failure
OnResponseKeepsLast202(a, resp) ==
  IF IsProcessing(resp.status_code)
    THEN IF AttemptsRemain(a) THEN Sleep ELSE Break
  ELSE IF IsBusy(resp.status_code)
    THEN IF AttemptsRemain(a) THEN Sleep
         ELSE Raise(HTTPException(503, "busy", 0))
  ELSE IF resp.status_code # 200
    THEN IF Decodes(resp)
           THEN Raise(HTTPException(502, "http error",
                        <<resp.status_code, Min(resp.length, DetailStatusExcerpt)>>))
           ELSE Raise(InternalServerError(resp.tree.error))
  ELSE Break

\* lines 69-99 on a received response; only the branch of line 91 reads
\* resp.text, and what it raises there no except clause takes
OnResponse(a, resp) ==
  IF IsProcessing(resp.status_code)
    THEN IF AttemptsRemain(a) THEN Sleep
         ELSE Raise(HTTPException(202, "processing", 0))
  ELSE IF IsBusy(resp.status_code)
    THEN IF AttemptsRemain(a) THEN Sleep
         ELSE Raise(HTTPException(503, "busy", 0))
  ELSE IF resp.status_code # 200
    THEN IF Decodes(resp)
           THEN Raise(HTTPException(502, "http error",
                        <<resp.status_code, Min(resp.length, DetailStatusExcerpt)>>))
           ELSE Raise(InternalServerError(resp.tree.error))
  ELSE Break

\* the try statement of one loop iteration
OnReply(a, reply) ==
  CASE reply.kind = "timeout" -> OnTimeout(a)
    [] reply.kind = "error" -> OnHTTPError(a)
    [] OTHER -> OnResponse(a, reply)

\* the else clause of the for loop, lines 111-116
LoopExhausted == HTTPException(503, "could not retrieve", max_retries)

\* lines 118-127: xml = resp.text and the guarded parse
ParseFailure(resp) == HTTPException(502, "parse", Min(resp.length, DetailXmlExcerpt))

\* lines 118-173: what the caller gets once the loop is left by break;
\* xml = resp.text stands outside every try statement
Finish(resp) ==
  IF ~Decodes(resp) THEN InternalServerError(resp.tree.error)
  ELSE IF resp.tree = Malformed THEN ParseFailure(resp)
  ELSE LET out == Normalize(resp.tree)
       IN IF out.raised THEN InternalServerError(out.error)
          ELSE JSONResponse(out.body)

(***************************************************************************)
(* Inputs                                                                  *)
(***************************************************************************)
\* the username query parameter: not supplied, or supplied with a value
NoParam == [present |-> FALSE]
Param(value) == [present |-> TRUE, value |-> value]
\* a string is the sequence of its runs: n times the character of code c
Run(c, n) == [c |-> c, n |-> n]
RECURSIVE len(_)
len(s) == IF s = <<>> THEN 0 ELSE s[1].n + len(Tail(s))

\* line 52: the characters of the URL other than the username
UrlFixedLength == 112
\* line 67: the longest URL client.get accepts
MAX_URL_LENGTH == 65536

\* "", "al", "a<TAB>b", the longest username whose URL is accepted, and
\* the shortest whose URL is too long
Usernames ==
  { NoParam, Param(<<>>),
    Param(<<Run(97, 1), Run(108, 1)>>),
    Param(<<Run(97, 1), Run(9, 1), Run(98, 1)>>),
    Param(<<Run(97, MAX_URL_LENGTH - UrlFixedLength)>>),
    Param(<<Run(97, MAX_URL_LENGTH - UrlFixedLength + 1)>>) }

\* every dict whose keys are some of DOMAIN vals, key k bound to a value of vals[k]
RECURSIVE FcnsOver(_)
FcnsOver(vals) ==
  IF DOMAIN vals = {} THEN { [k \in {} |-> None] }
  ELSE LET key == CHOOSE k \in DOMAIN vals : TRUE
           rest == FcnsOver([k \in DOMAIN vals \ {key} |-> vals[k]])
       IN rest \cup { (key :> v) @@ f : f \in rest, v \in vals[key] }
DictsOver(vals) == { Dict(f) : f \in FcnsOver(vals) }

ListsOver(S, lo, hi) == UNION { { List(l) : l \in [1..n -> S] } : n \in lo..hi }

\* <name> elements
NameDicts ==
  DictsOver(("@sortindex" :> {Str("1"), PyInt(1), Str("2")})
         @@ ("#text" :> {Str("A"), Str("B")})
         @@ ("@value" :> {Str("V")}))
NameEntries == NameDicts \cup {Str("S"), None}
NameData == ListsOver(NameEntries, 1, MaxNames) \cup NameDicts \cup {Str("S"), Str(""), None}

\* <item> elements
Games == DictsOver(("@objectid" :> {Str("7")}) @@ ("name" :> NameData))
FewGames ==
  { Dict(("@objectid" :> Str("7")) @@ ("name" :> Dict(("@sortindex" :> Str("1")) @@ ("#text" :> Str("A"))))),
    Dict(("@objectid" :> Str("8")) @@ ("name" :> Str("S"))),
    Dict(("@objectid" :> Str("9")) @@
         ("name" :> List(<<Dict(("@sortindex" :> Str("2")) @@ ("#text" :> Str("B"))),
                           Dict(("@sortindex" :> Str("1")) @@ ("#text" :> Str("A")))>>))),
    Dict("@subtype" :> Str("boardgame")),
    None,
    Str("x") }
ItemNodes ==
  Games \cup { List(<<g>>) : g \in Games } \cup {None, Str("x")}
        \cup ListsOver(FewGames, 0, MaxItems)

\* <items> elements
ItemsNodes ==
  { Dict(("@totalitems" :> Str("1")) @@ ("item" :> i)) : i \in ItemNodes }
    \cup { Dict("@totalitems" :> Str("0")), None, Str("x") }

\* <message> elements
MessageNodes ==
  { Str("wait"), None,
    Dict(("@code" :> Str("1")) @@ ("#text" :> Str("wait"))),
    Dict("@code" :> Str("1")) }

\* parsed documents: one root element
Trees ==
  { Dict("items" :> i) : i \in ItemsNodes }
    \cup { Dict("message" :> m) : m \in MessageNodes }
    \cup { Dict("errors" :> Dict("error" :> Dict("message" :> Str("Invalid username")))) }

FewTrees ==
  { Dict("items" :> Dict(("@totalitems" :> Str("1")) @@ ("item" :> g))) : g \in FewGames }
    \cup { Dict("items" :> Dict("@totalitems" :> Str("0"))),
           Dict("items" :> None),
           Dict("message" :> Str("wait")) }

\* outcomes of one upstream call
RetryReplies ==
  { TimeoutException, HTTPError,
    Response(202, 100, Dict("message" :> Str("wait"))),
    Response(500, 100, Malformed),
    Response(503, 100, Malformed) }
FatalReplies == { Response(c, n, Malformed) : c \in {404, 429}, n \in {150, 250} }
BadXmlReplies == { Response(200, n, Malformed) : n \in {400, 600} }
\* what resp.text raises, by the charset the response names
DecodeErrors == {"TypeError", "AssertionError", "UnicodeError"}
UndecodableReplies ==
  { Response(c, 0, Undecodable(e)) : c \in {200, 404}, e \in DecodeErrors }
Replies ==
  RetryReplies \cup FatalReplies \cup BadXmlReplies \cup UndecodableReplies
    \cup { Response(200, 300, t) : t \in FewTrees }
NormReplies == BadXmlReplies \cup { Response(200, 300, t) : t \in Trees }
ConcReplies ==
  { Response(503, 100, Malformed), Response(404, 150, Malformed),
    Response(200, 300, Dict("items" :> Dict("@totalitems" :> Str("0")))) }

(***************************************************************************)
(* The handler as a state machine                                          *)
(***************************************************************************)
InitWith(active) ==
  /\ username \in { u \in [Requests -> Usernames] :
                      \A r \in Requests \ active : u[r] = NoParam }
  /\ pc = [r \in Requests |-> IF r \in active THEN "start" ELSE "idle"]
  /\ attempt = [r \in Requests |-> 0]
  /\ calls = [r \in Requests |-> 0]
  /\ delays = [r \in Requests |-> 0]
  /\ hist = [r \in Requests |-> <<>>]
  /\ response = [r \in Requests |-> NoResponse]

\* "if not username"
IsEmpty(u) == len(u.value) = 0

\* lines 52 and 67: the username goes into the URL as it is, and client.get
\* refuses with httpx.InvalidURL, which is not an httpx.HTTPError, a URL
\* longer than MAX_URL_LENGTH and a URL that holds a non-printable ASCII
\* character (below 0x20, or 0x7F)
IsControl(c) == c < 32 \/ c = 127
InvalidURL(u) ==
  \/ UrlFixedLength + len(u.value) > MAX_URL_LENGTH
  \/ \E i \in 1..Len(u.value) : IsControl(u.value[i].c)

\* line 64: leaving the "async with" block awaits the client's __aexit__,
\* which yields to the event loop when the client holds a connection to
\* close: after a response that the upstream let keep the connection
\* alive, and after an httpx.HTTPError that leaves it in the pool (a
\* DecodingError of the body). After a response sent with
\* "Connection: close", a timeout or a failed connection it is already gone
KeepsConnection(reply, keep_alive) ==
  reply.kind \in {"response", "error"} /\ keep_alive

\* one counter for all requests, as a module-level variable would be
SharedAttempt(r) ==
  attempt[CHOOSE q \in Requests : \A o \in Requests : attempt[o] <= attempt[q]]

\* "attempt" is a local variable of the coroutine serving request r
LoopAttempt(r) == attempt[r]

\* lines 38-67: the request arrives; it is validated and, when valid, the
\* loop is entered and the first client.get is called: it raises InvalidURL,
\* which no except clause takes, or it is awaited
Start(r) ==
  /\ pc[r] = "start"
  /\ IF ~username[r].present
       THEN /\ pc' = [pc EXCEPT ![r] = "done"]
            /\ response' = [response EXCEPT ![r] = ValidationError]
            /\ UNCHANGED <<attempt, calls>>
     ELSE IF IsEmpty(username[r])
       THEN /\ pc' = [pc EXCEPT ![r] = "done"]
            /\ response' = [response EXCEPT ![r] = HTTPException(400, "username is required", 0)]
            /\ UNCHANGED <<attempt, calls>>
     ELSE IF InvalidURL(username[r])
       THEN /\ pc' = [pc EXCEPT ![r] = "done"]
            /\ attempt' = [attempt EXCEPT ![r] = 0]
            /\ calls' = [calls EXCEPT ![r] = calls[r] + 1]
            /\ response' = [response EXCEPT ![r] = InternalServerError("InvalidURL")]
     ELSE /\ pc' = [pc EXCEPT ![r] = "calling"]
          /\ attempt' = [attempt EXCEPT ![r] = 0]
          /\ calls' = [calls EXCEPT ![r] = calls[r] + 1]
          /\ UNCHANGED response
  /\ UNCHANGED <<username, delays, hist>>

\* lines 64-173: the awaited client.get ends in reply; the handler runs to
\* its next await: the sleep, or the closing of the client when the block is
\* left by break or by a raise with a connection kept alive; with no
\* connection left it runs on to its response in the same step
Reply(r, reply, keep_alive) ==
  /\ pc[r] = "calling"
  /\ hist' = [hist EXCEPT ![r] = Append(hist[r], reply)]
  /\ LET step == OnReply(LoopAttempt(r), reply)
     IN CASE step.do = "sleep" ->
               /\ pc' = [pc EXCEPT ![r] = "sleeping"]
               /\ delays' = [delays EXCEPT ![r] = delays[r] + 1]
               /\ UNCHANGED response
          [] step.do # "sleep" /\ KeepsConnection(reply, keep_alive) ->
               /\ pc' = [pc EXCEPT ![r] = "closing"]
               /\ UNCHANGED <<delays, response>>
          [] step.do # "sleep" /\ ~KeepsConnection(reply, keep_alive) ->
               /\ pc' = [pc EXCEPT ![r] = "done"]
               /\ response' = [response EXCEPT ![r] =
                                IF step.do = "raise" THEN step.exc ELSE Finish(reply)]
               /\ UNCHANGED delays
  /\ UNCHANGED <<username, attempt, calls>>

\* lines 64 and 118-173: the client is closed; the exception raised in the
\* block goes to the caller, or, after the break, the body is parsed and
\* normalized
ClientClosed(r) ==
  /\ pc[r] = "closing"
  /\ LET resp == Last(hist[r])
         step == OnReply(LoopAttempt(r), resp)
     IN response' = [response EXCEPT ![r] =
                       IF step.do = "raise" THEN step.exc ELSE Finish(resp)]
  /\ pc' = [pc EXCEPT ![r] = "done"]
  /\ UNCHANGED <<username, attempt, calls, delays, hist>>

\* the client.get request r awaits ends in one of the outcomes of replies,
\* the upstream keeping the connection alive or not
AwaitReply(r, replies) ==
  /\ pc[r] = "calling"
  /\ \E reply \in replies, keep_alive \in BOOLEAN : Reply(r, reply, keep_alive)

\* lines 72-73 and 65-67: the sleep is over, continue takes the loop to its
\* next iteration and its client.get, or to the else clause when range is
\* used up
SleepDone(r) ==
  /\ pc[r] = "sleeping"
  /\ IF InRange(LoopAttempt(r) + 1)
       THEN /\ attempt' = [attempt EXCEPT ![r] = LoopAttempt(r) + 1]
            /\ calls' = [calls EXCEPT ![r] = calls[r] + 1]
            /\ pc' = [pc EXCEPT ![r] = "calling"]
            /\ UNCHANGED response
       ELSE /\ pc' = [pc EXCEPT ![r] = "done"]
            /\ response' = [response EXCEPT ![r] = LoopExhausted]
            /\ UNCHANGED <<attempt, calls>>
  /\ UNCHANGED <<username, delays, hist>>

\* one request
Init == InitWith({1})
Next ==
  \E r \in Requests :
    \/ Start(r)
    \/ AwaitReply(r, Replies)
    \/ SleepDone(r)
    \/ ClientClosed(r)
Spec == Init /\ [][Next]_vars

\* one request, every shape of 200 body
NextNorm ==
  \E r \in Requests :
    \/ Start(r)
    \/ AwaitReply(r, NormReplies)
    \/ ClientClosed(r)
SpecNorm == Init /\ [][NextNorm]_vars

\* requests served concurrently
InitConc == InitWith(Requests)
NextConc ==
  \E r \in Requests :
    \/ Start(r)
    \/ AwaitReply(r, ConcReplies)
    \/ SleepDone(r)
    \/ ClientClosed(r)
SpecConc == InitConc /\ [][NextConc]_vars

\* one request whose steps are all eventually taken: an arrived request is
\* run by the event loop, every client.get ends (in a response, a timeout or
\* a transport error), every sleep elapses and every closing of the client
\* completes
Fairness ==
  \A r \in Requests :
    /\ WF_vars(Start(r))
    /\ WF_vars(AwaitReply(r, Replies))
    /\ WF_vars(SleepDone(r))
    /\ WF_vars(ClientClosed(r))
SpecLive == Init /\ [][Next]_vars /\ Fairness

TypeOK ==
  /\ pc \in [Requests -> {"idle", "start", "calling", "sleeping", "closing", "done"}]
  /\ attempt \in [Requests -> 0..max_retries]
  /\ calls \in [Requests -> 0..(max_retries + 1)]

(***************************************************************************)
(* Properties                                                              *)
(***************************************************************************)
IsStatus(reply, codes) == reply.kind = "response" /\ reply.status_code \in codes

\* the request has left the retry loop: its client is being closed, or its
\* response is out
LeftLoop(r) == pc[r] \in {"closing", "done"}

\* the outcomes after which the request may try again
Transient(reply) == reply.kind \in {"timeout", "error"} \/ IsStatus(reply, {202, 500, 503})

\* C1: a request makes at most 5 upstream calls, and every call after the
\* first follows an outcome of class 202, 500/503, timeout or transport error
C1_BoundedRetries ==
  \A r \in Requests :
    /\ calls[r] <= 5
    /\ \A i \in 1..Len(hist[r]) : i < calls[r] => Transient(hist[r][i])

C1_Witness ==
  \E r \in Requests :
    /\ calls[r] = 5 /\ Len(hist[r]) = 5 /\ pc[r] = "done"
    /\ IsStatus(hist[r][1], {202}) /\ hist[r][2].kind = "timeout"
    /\ IsStatus(hist[r][3], {500}) /\ hist[r][4].kind = "error"

AllProcessing(h) == \A i \in 1..Len(h) : IsStatus(h[i], {202})

\* C2: when every attempt is answered 202 the request makes exactly 5
\* attempts and takes exactly 4 delays, then fails with status 202; the fifth
\* 202 ends the request without a delay
C2_AlwaysProcessing ==
  \A r \in Requests :
    (Len(hist[r]) > 0 /\ AllProcessing(hist[r])) =>
      /\ Len(hist[r]) <= 5
      /\ Len(hist[r]) < 5 => /\ pc[r] \in {"sleeping", "calling"}
                             /\ delays[r] = Len(hist[r])
      /\ Len(hist[r]) = 5 => /\ LeftLoop(r)
                             /\ calls[r] = 5
                             /\ delays[r] = 4
                             /\ pc[r] = "done" => response[r].code = 202

C2_Witness ==
  \E r \in Requests :
    /\ Len(hist[r]) = 5 /\ AllProcessing(hist[r])
    /\ pc[r] = "done" /\ response[r].code = 202 /\ delays[r] = 4

OneGameTree ==
  Dict("items" :> Dict(("@totalitems" :> Str("1")) @@
    ("item" :> Dict(("@objectid" :> Str("7")) @@
                    ("name" :> Dict(("@sortindex" :> Str("1")) @@ ("#text" :> Str("A"))))))))

\* C3: 500 then 200 makes exactly two attempts with one delay between them,
\* and the caller gets the normalized result of the 200 body, not a failure
\* (a 200 whose text xmltodict rejects is answered by the 502 of C7)
C3_BusyThenOk ==
  \A r \in Requests :
    /\ (Len(hist[r]) = 1 /\ IsStatus(hist[r][1], {500})) =>
         pc[r] \in {"sleeping", "calling"} /\ delays[r] = 1
    /\ (Len(hist[r]) >= 2 /\ IsStatus(hist[r][1], {500}) /\ IsStatus(hist[r][2], {200})) =>
         /\ Len(hist[r]) = 2 /\ LeftLoop(r)
         /\ calls[r] = 2 /\ delays[r] = 1
         /\ (pc[r] = "done" /\ hist[r][2].tree # Malformed) =>
              /\ response[r].code = 200 /\ "body" \in DOMAIN response[r]
              /\ response[r].body.status \in {"ok", "processing"}
              /\ response[r].body = Normalize(hist[r][2].tree).body
              /\ hist[r][2].tree = OneGameTree =>
                   response[r].body = [status |-> "ok", count |-> 1,
                                       items |-> <<[objectid |-> Str("7"), name |-> Str("A")]>>]
              /\ hist[r][2].tree = Dict("message" :> Str("wait")) =>
                   response[r].body = [status |-> "processing", message |-> Str("wait")]

Unexpected(reply) == reply.kind = "response" /\ reply.status_code \notin {200, 202, 500, 503}

\* C4: a status other than 200, 202, 500 and 503 ends the request at once
\* with 502, on whatever attempt it arrives: no delay follows it and no
\* further call is made
C4_UnexpectedStatus ==
  \A r \in Requests :
    (Len(hist[r]) > 0 /\ Unexpected(Last(hist[r]))) =>
      /\ LeftLoop(r)
      /\ pc[r] = "done" => response[r].code = 502
      /\ calls[r] = Len(hist[r])
      /\ delays[r] = Len(hist[r]) - 1

ExhaustedCode(reply) ==
  CASE reply.kind = "timeout" -> 504
    [] reply.kind = "error" -> 502
    [] IsStatus(reply, {202}) -> 202
    [] IsStatus(reply, {500, 503}) -> 503

\* C5: the failure of an exhausted loop is classified by the fifth outcome
\* alone (202 -> 202, 500/503 -> 503, timeout -> 504, transport error -> 502);
\* before the fifth attempt each of these outcomes is followed by one delay
\* and the next attempt
C5_LastOutcomeClassifies ==
  \A r \in Requests :
    (Len(hist[r]) > 0 /\ Transient(Last(hist[r]))) =>
      IF Len(hist[r]) = 5
        THEN /\ LeftLoop(r)
             /\ pc[r] = "done" => response[r].code = ExhaustedCode(Last(hist[r]))
             /\ calls[r] = 5 /\ delays[r] = 4
        ELSE /\ Len(hist[r]) < 5
             /\ pc[r] \in {"sleeping", "calling"}
             /\ delays[r] = Len(hist[r])
             /\ pc[r] = "sleeping" => calls[r] = Len(hist[r])
             /\ pc[r] = "calling" => calls[r] = Len(hist[r]) + 1

C5_Witness ==
  \E r \in Requests :
    /\ Len(hist[r]) = 5 /\ Last(hist[r]).kind = "timeout"
    /\ IsStatus(hist[r][1], {202}) /\ IsStatus(hist[r][4], {503})
    /\ pc[r] = "done" /\ response[r].code = 504

\* C6: a request without the username parameter is answered 400 and makes
\* no upstream call
C6_MissingUsername400 ==
  \A r \in Requests :
    (pc[r] = "done" /\ ~username[r].present) =>
      response[r].code = 400 /\ calls[r] = 0

\* a 200 whose body is no XML: its text does not parse, or it has no text
BadXml(reply) == IsStatus(reply, {200}) /\ (reply.tree = Malformed \/ ~Decodes(reply))

\* C7: a 200 whose body does not parse is answered with a 502 that carries
\* an excerpt of at most 500 characters of the body, never with an unhandled
\* error, and the request makes no further attempt and takes no further delay
C7_UnparsableBody ==
  \A r \in Requests :
    (Len(hist[r]) > 0 /\ BadXml(Last(hist[r]))) =>
      /\ LeftLoop(r)
      /\ pc[r] = "done" =>
           /\ response[r].code = 502
           /\ "unhandled" \notin DOMAIN response[r]
           /\ response[r].detail = "parse"
           /\ response[r].info = Min(Last(hist[r]).length, 500)
      /\ calls[r] = Len(hist[r])
      /\ delays[r] = Len(hist[r]) - 1

\* what request r holds: its position, its loop counter, its counts of
\* calls and delays and its response
Local(r) ==
  [pc |-> pc[r], attempt |-> attempt[r], calls |-> calls[r],
   delays |-> delays[r], response |-> response[r]]

\* a request served alone: its state on arrival, after an outcome of its
\* call and after its sleep
Arrived(u) ==
  IF ~u.present
    THEN [pc |-> "done", attempt |-> 0, calls |-> 0, delays |-> 0, response |-> ValidationError]
  ELSE IF u.value = <<>>
    THEN [pc |-> "done", attempt |-> 0, calls |-> 0, delays |-> 0,
          response |-> HTTPException(400, "username is required", 0)]
  ELSE IF \/ \E i \in 1..Len(u.value) : u.value[i].c \in (0..31) \cup {127}
          \/ len(u.value) >= 65425
    THEN [pc |-> "done", attempt |-> 0, calls |-> 1, delays |-> 0,
          response |-> InternalServerError("InvalidURL")]
  ELSE [pc |-> "calling", attempt |-> 0, calls |-> 1, delays |-> 0, response |-> NoResponse]

Received(st, reply) ==
  LET step == OnReply(st.attempt, reply)
  IN CASE step.do = "sleep" -> [st EXCEPT !.pc = "sleeping", !.delays = @ + 1]
       [] step.do = "raise" -> [st EXCEPT !.pc = "done", !.response = step.exc]
       [] step.do = "break" -> [st EXCEPT !.pc = "done", !.response = Finish(reply)]

\* the request between leaving the loop on a response and its answer, while
\* its client is being closed
Closing(st) == [st EXCEPT !.pc = "closing", !.response = NoResponse]

Woken(st) ==
  IF InRange(st.attempt + 1)
    THEN [st EXCEPT !.pc = "calling", !.attempt = @ + 1, !.calls = @ + 1]
    ELSE [st EXCEPT !.pc = "done", !.response = LoopExhausted]

RECURSIVE RunAlone(_, _)
RunAlone(u, h) ==
  IF Len(h) = 0 THEN Arrived(u)
  ELSE LET before == RunAlone(u, SubSeq(h, 1, Len(h) - 1))
       IN Received(IF before.pc = "sleeping" THEN Woken(before) ELSE before, Last(h))

DeterminedByOwnInputs ==
  \A r \in Requests :
    \/ pc[r] = "start"
    \/ Local(r) = RunAlone(username[r], hist[r])
    \/ /\ RunAlone(username[r], hist[r]).pc = "sleeping"
       /\ Local(r) = Woken(RunAlone(username[r], hist[r]))
    \/ /\ RunAlone(username[r], hist[r]).pc = "done"
       /\ Len(hist[r]) > 0 /\ Last(hist[r]).kind = "response"
       /\ Local(r) = Closing(RunAlone(username[r], hist[r]))

OneRequestMoves ==
  \A r, q \in Requests :
    (r # q /\ (Local(r)' # Local(r) \/ hist'[r] # hist[r])) =>
      (Local(q)' = Local(q) /\ hist'[q] = hist[q] /\ username'[q] = username[q])

\* C8: under any interleaving of concurrent requests, each request's attempt
\* counter, delay count and response are those of the same request served
\* alone with its own username and its own sequence of upstream outcomes, and
\* a step of one request changes nothing of another
C8_RequestsIndependent == []DeterminedByOwnInputs /\ [][OneRequestMoves]_vars

C8_Witness ==
  \E r, q \in Requests :
    /\ r # q
    /\ pc[r] = "closing" /\ attempt[r] = 3 /\ delays[r] = 3
    /\ pc[q] = "calling" /\ attempt[q] = 1 /\ delays[q] = 1
    /\ Local(q) = Woken(RunAlone(username[q], hist[q]))

IsOk(resp) == resp.code = 200 /\ resp.body.status = "ok"

\* C9: in every response with status ok, count is the length of items
C9_CountIsLength ==
  \A r \in Requests :
    (pc[r] = "done" /\ IsOk(response[r])) =>
      /\ DOMAIN response[r].body = {"status", "count", "items"}
      /\ response[r].body.count = Len(response[r].body.items)

C9_Witness ==
  \E r \in Requests :
    /\ pc[r] = "done" /\ IsOk(response[r])
    /\ response[r].body.count = 2
    /\ response[r].body.items[1].name = None
    /\ response[r].body.items[2].name = Str("A")

HasMessage(reply) ==
  IsStatus(reply, {200}) /\ reply.tree # Malformed /\ "message" \in DOMAIN reply.tree.d

\* the text of a message node: its "#text" if it is a mapping (null when it
\* has none), else the node itself
TextOfMessage(m) ==
  IF m.t = "dict"
    THEN IF "#text" \in DOMAIN m.d THEN m.d["#text"] ELSE None
    ELSE m

\* C10: a 200 body with a top-level message node gives status=processing
\* with that node's text, and neither items nor count
C10_MessageIsProcessing ==
  \A r \in Requests :
    (Len(hist[r]) > 0 /\ HasMessage(Last(hist[r]))) =>
      /\ LeftLoop(r)
      /\ pc[r] = "done" =>
           /\ response[r].code = 200
           /\ DOMAIN response[r].body = {"status", "message"}
           /\ response[r].body.status = "processing"
           /\ response[r].body.message = TextOfMessage(Last(hist[r]).tree.d["message"])

C10_Witness ==
  \E r \in Requests :
    /\ Len(hist[r]) > 0 /\ HasMessage(Last(hist[r]))
    /\ Last(hist[r]).tree.d["message"].t = "dict"
    /\ pc[r] = "done" /\ response[r].code = 200
    /\ response[r].body = [status |-> "processing", message |-> Str("wait")]

\* the items -> item node of a parsed 200 body
HasItemNode(reply) ==
  /\ IsStatus(reply, {200}) /\ reply.tree # Malformed
  /\ "message" \notin DOMAIN reply.tree.d
  /\ "items" \in DOMAIN reply.tree.d
  /\ reply.tree.d["items"].t = "dict"
  /\ "item" \in DOMAIN reply.tree.d["items"].d
ItemNode(reply) == reply.tree.d["items"].d["item"]

\* the same reply with another item node
WithItemNode(reply, node) ==
  Response(200, reply.length,
           Dict("items" :> Dict(("item" :> node) @@ reply.tree.d["items"].d)))

Answered(r) == pc[r] = "done" /\ Len(hist[r]) > 0

\* C11: a body whose item node is one mapping m gets the same response as
\* the body whose item node is the one-element sequence [m], and that
\* response is an ok result of one item
C11_SingleAsOneElementList ==
  \A r \in Requests :
    (Answered(r) /\ HasItemNode(Last(hist[r]))) =>
      LET reply == Last(hist[r])
          node == ItemNode(reply)
      IN /\ node.t = "dict" =>
              /\ response[r] = Finish(WithItemNode(reply, List(<<node>>)))
              /\ IsOk(response[r]) /\ response[r].body.count = 1
         /\ (node.t = "list" /\ Len(node.l) = 1 /\ node.l[1].t = "dict") =>
              /\ response[r] = Finish(WithItemNode(reply, node.l[1]))
              /\ IsOk(response[r]) /\ response[r].body.count = 1

C11_Witness ==
  \E r \in Requests :
    /\ Answered(r) /\ HasItemNode(Last(hist[r]))
    /\ ItemNode(Last(hist[r])).t = "dict"
    /\ "name" \in DOMAIN ItemNode(Last(hist[r])).d
    /\ ItemNode(Last(hist[r])).d["name"].t = "list"
    /\ response[r].body = [status |-> "ok", count |-> 1,
                           items |-> <<[objectid |-> Str("7"), name |-> Str("B")]>>]

\* a body with one item mapping whose name is a sequence of mappings
HasNameCandidates(reply) ==
  /\ HasItemNode(reply) /\ ItemNode(reply).t = "dict"
  /\ "name" \in DOMAIN ItemNode(reply).d
  /\ ItemNode(reply).d["name"].t = "list"
  /\ \A i \in 1..Len(ItemNode(reply).d["name"].l) : ItemNode(reply).d["name"].l[i].t = "dict"
NameCandidates(reply) == ItemNode(reply).d["name"].l

SortIndexIs1(c) ==
  "@sortindex" \in DOMAIN c.d /\ c.d["@sortindex"] \in {Str("1"), PyInt(1)}

\* the first candidate with sortindex 1, else the first candidate
Preferred(l) ==
  LET ones == {i \in 1..Len(l) : SortIndexIs1(l[i])}
  IN IF ones = {} THEN l[1] ELSE l[CHOOSE i \in ones : \A j \in ones : i <= j]

\* name is what candidate c carries: its text, else its value; what a
\* candidate with neither gives is the subject of C15
ComesFrom(name, c) ==
  IF "#text" \in DOMAIN c.d THEN name = c.d["#text"]
  ELSE IF "@value" \in DOMAIN c.d THEN name = c.d["@value"]
  ELSE name \in {None, Str("")}

Candidate(sortindex, text) == Dict(("@sortindex" :> Str(sortindex)) @@ ("#text" :> Str(text)))

\* C12: from a sequence of candidate mappings the name is taken from the
\* first candidate with sortindex "1" or 1, wherever it stands, and from the
\* first candidate when none has sortindex 1; [{2,B},{1,A}] gives A and
\* [{2,B}] gives B
C12_PreferSortIndex1 ==
  \A r \in Requests :
    (Answered(r) /\ HasNameCandidates(Last(hist[r]))) =>
      LET l == NameCandidates(Last(hist[r]))
      IN /\ IsOk(response[r]) /\ response[r].body.count = 1
         /\ ComesFrom(response[r].body.items[1].name, Preferred(l))
         /\ l = <<Candidate("2", "B"), Candidate("1", "A")>> =>
              response[r].body.items[1].name = Str("A")
         /\ l = <<Candidate("2", "B")>> =>
              response[r].body.items[1].name = Str("B")

C12_Witness ==
  \E r \in Requests :
    /\ Answered(r) /\ HasNameCandidates(Last(hist[r]))
    /\ NameCandidates(Last(hist[r])) =
         <<Candidate("2", "B"), Dict(("@sortindex" :> PyInt(1)) @@ ("#text" :> Str("A")))>>
    /\ response[r].body.items[1].name = Str("A")

\* a 200 body that parsed and has no top-level message node
ParsedNoMessage(reply) ==
  /\ IsStatus(reply, {200}) /\ reply.tree # Malformed
  /\ "message" \notin DOMAIN reply.tree.d

\* C13: once a 200 body has parsed and has no message node, whatever the
\* shape of the tree the caller gets a status=ok result whose items all have
\* an objectid field and a name field
C13_NormalizationNeverAborts ==
  \A r \in Requests :
    (Answered(r) /\ ParsedNoMessage(Last(hist[r]))) =>
      /\ IsOk(response[r])
      /\ \A i \in 1..Len(response[r].body.items) :
           DOMAIN response[r].body.items[i] = {"objectid", "name"}

ExplicitFailures == {"processing", "busy", "http error", "timeout", "contact"}

\* C14: the else clause of the retry loop is never reached: a sleep is
\* always followed by another iteration, and a request that entered the loop
\* leaves it only by the break on a 200 or by a failure raised in one of the
\* explicit branches
C14_FallbackUnreachable ==
  \A r \in Requests :
    /\ response[r] # LoopExhausted
    /\ pc[r] = "sleeping" => attempt[r] + 1 < 5
    /\ (pc[r] = "done" /\ calls[r] >= 1) =>
         \/ Len(hist[r]) > 0 /\ IsStatus(Last(hist[r]), {200})
         \/ /\ "detail" \in DOMAIN response[r]
            /\ response[r].detail \in ExplicitFailures

\* a body with one item mapping whose name is one mapping
HasNameMapping(reply) ==
  /\ HasItemNode(reply) /\ ItemNode(reply).t = "dict"
  /\ "name" \in DOMAIN ItemNode(reply).d
  /\ ItemNode(reply).d["name"].t = "dict"

HasChosenEntry(reply) == HasNameMapping(reply) \/ HasNameCandidates(reply)

\* the single name mapping, or the entry selected from the candidates
ChosenEntry(reply) ==
  IF HasNameMapping(reply) THEN ItemNode(reply).d["name"]
  ELSE Preferred(NameCandidates(reply))

\* the name the chosen entry must give, bare being the name of an entry
\* with neither text nor value
NameOfEntry(c, bare) ==
  IF "#text" \in DOMAIN c.d THEN c.d["#text"]
  ELSE IF "@value" \in DOMAIN c.d THEN c.d["@value"]
  ELSE bare

\* C15: the chosen entry gives its text, else its value, else null
C15_BareEntryIsNull ==
  \A r \in Requests :
    (Answered(r) /\ HasChosenEntry(Last(hist[r]))) =>
      /\ IsOk(response[r])
      /\ response[r].body.items[1].name = NameOfEntry(ChosenEntry(Last(hist[r])), None)

\* the upstream items of a parsed body, in document order
UpstreamItems(reply) ==
  IF ~HasItemNode(reply) THEN <<>>
  ELSE IF ItemNode(reply).t = "list" THEN ItemNode(reply).l
  ELSE <<ItemNode(reply)>>

ObjectIdOf(game) == IF "@objectid" \in DOMAIN game.d THEN game.d["@objectid"] ELSE None
NameNodeOf(game) == IF "name" \in DOMAIN game.d THEN game.d["name"] ELSE None

\* C16: an ok result has one record per upstream item, in upstream order,
\* the i-th record carrying the objectid (null if the item has none) and the
\* extracted name of the i-th item
C16_OneRecordPerItemInOrder ==
  \A r \in Requests :
    (Answered(r) /\ IsOk(response[r])) =>
      LET upstream == UpstreamItems(Last(hist[r]))
          items == response[r].body.items
      IN /\ IsStatus(Last(hist[r]), {200})
         /\ Len(items) = Len(upstream)
         /\ \A i \in 1..Len(upstream) :
              /\ items[i].objectid = ObjectIdOf(upstream[i])
              /\ items[i].name = ExtractName(NameNodeOf(upstream[i]))

C16_Witness ==
  \E r \in Requests :
    /\ Answered(r) /\ IsOk(response[r])
    /\ Len(UpstreamItems(Last(hist[r]))) = 2
    /\ response[r].body.items = <<[objectid |-> None, name |-> None],
                                  [objectid |-> Str("8"), name |-> Str("S")]>>

\* a parsed body without message node and without items -> item node: no
\* items node at all, or an items node that has no item child
NoItemNode(reply) == ParsedNoMessage(reply) /\ ~HasItemNode(reply)

\* C17: a parsed body with no message node and no item node gives status=ok
\* with count 0 and an empty items sequence
C17_AbsentItemsIsEmptyOk ==
  \A r \in Requests :
    (Answered(r) /\ NoItemNode(Last(hist[r]))) =>
      response[r] = [code |-> 200,
                     body |-> [status |-> "ok", count |-> 0, items |-> <<>>]]

DelaysBetweenAttempts ==
  \A r \in Requests :
    calls[r] >= 1 =>
      /\ delays[r] <= Len(hist[r])
      /\ LeftLoop(r) => delays[r] = calls[r] - 1
      /\ pc[r] = "sleeping" =>
           /\ Transient(Last(hist[r]))
           /\ Len(hist[r]) < 5
           /\ delays[r] = Len(hist[r])

DelayOnlyAfterTransient ==
  \A r \in Requests :
    /\ delays'[r] # delays[r] =>
         /\ delays'[r] = delays[r] + 1
         /\ Len(hist'[r]) = Len(hist[r]) + 1
         /\ Transient(Last(hist'[r]))
         /\ Len(hist'[r]) < 5
         /\ pc'[r] = "sleeping"
    /\ (pc[r] = "sleeping" /\ pc'[r] # "sleeping") =>
         /\ pc'[r] = "calling"
         /\ calls'[r] = calls[r] + 1

\* C18: a delay is taken only directly after a retryable outcome of an
\* attempt that is not the last, and the step after it is another attempt;
\* delays never exceed the attempts completed and a finished request has
\* taken one delay less than it made attempts
C18_DelaysFollowAttempts == []DelaysBetweenAttempts /\ [][DelayOnlyAfterTransient]_vars

C18_Witness ==
  \E r \in Requests :
    /\ Answered(r) /\ IsOk(response[r])
    /\ calls[r] = 3 /\ delays[r] = 2
    /\ hist[r][1].kind = "timeout" /\ IsStatus(hist[r][2], {503})

\* C19: a result (ok or processing) is returned only when the latest
\* attempt was answered 200, it is the normalization of that 200 body, and a
\* 200 is always the last attempt: no call and no delay follow it
C19_ResultOnlyFrom200 ==
  \A r \in Requests :
    /\ "body" \in DOMAIN response[r] =>
         /\ pc[r] = "done" /\ Len(hist[r]) > 0
         /\ IsStatus(Last(hist[r]), {200})
         /\ Last(hist[r]).tree # Malformed
         /\ response[r].body.status \in {"ok", "processing"}
         /\ response[r].body = Normalize(Last(hist[r]).tree).body
    /\ \A i \in 1..Len(hist[r]) :
         IsStatus(hist[r][i], {200}) =>
           /\ i = Len(hist[r])
           /\ LeftLoop(r)
           /\ calls[r] = i
           /\ delays[r] = i - 1

C19_Witness ==
  \E r \in Requests :
    /\ Answered(r) /\ Len(hist[r]) = 2
    /\ IsStatus(hist[r][1], {202}) /\ IsStatus(hist[r][2], {200})
    /\ response[r] = [code |-> 200, body |-> [status |-> "processing", message |-> Str("wait")]]

\* the two kinds of response the handler itself produces
IsResult(resp) ==
  /\ DOMAIN resp = {"code", "body"} /\ resp.code = 200
  /\ resp.body.status \in {"ok", "processing"}
IsClassifiedFailure(resp) ==
  /\ DOMAIN resp = {"code", "detail", "info"}
  /\ resp.code \in {400, 422, 202, 502, 503, 504}

Terminates == \A r \in Requests : (pc[r] # "idle") ~> (pc[r] = "done")

OneResponseWhenDone ==
  \A r \in Requests :
    /\ pc[r] \notin {"idle", "done"} => response[r] = NoResponse
    /\ pc[r] = "done" =>
         /\ IsResult(response[r]) \/ IsClassifiedFailure(response[r])
         /\ ~(IsResult(response[r]) /\ IsClassifiedFailure(response[r]))

DoneIsFinal ==
  \A r \in Requests :
    pc[r] = "done" => (pc'[r] = "done" /\ response'[r] = response[r])

\* C20: when every call completes and every delay elapses, every request
\* terminates and delivers exactly one response, a result (ok or processing)
\* or a classified failure
C20_TerminatesWithOneResponse ==
  Terminates /\ []OneResponseWhenDone /\ [][DoneIsFinal]_vars

====
